---- MODULE Spec2Model ----
(***************************************************************************)
(* Model of mem-find's lazy scan engine (src/src/lib.rs): Finder::find_iter *)
(* opens /proc/<pid>/maps and /proc/<pid>/mem and builds the coroutine of   *)
(* FindIter::new; FindIter::next resumes it until it yields one item.       *)
(*                                                                          *)
(* The target process is the environment.  Its region list is revealed one  *)
(* line at a time, when the engine reads it (the kernel generates the file  *)
(* on read), and a region's bytes are revealed when read_exact_at reads     *)
(* them.  The list is finite: nlines lines, fixed when the scan starts.     *)
(*                                                                          *)
(* Bytes are numbers 0..255, text is a sequence of code points, a pathname  *)
(* is a sequence of one-character strings.  The fields offset, dev and      *)
(* inode of Map are parsed but never read by the engine and are left out.   *)
(***************************************************************************)
EXTENDS Integers, Sequences, FiniteSets, TLC

\* ---------------------------------------------------------------- bounds
MaxLines == 2

MaxHayLen == 3

\* ------------------------------------------------------ the input domains
\* NUL, 'a', the two bytes of U+00E9 (0xC3 0xA9).  0xA9 alone and 0xC3 not
\* followed by a continuation byte are invalid UTF-8.
Bytes == {0, 97, 195, 169}

Needles == {<<97>>, <<97, 97>>, <<195, 169>>}

Pathnames ==
    { <<>>,
      <<"[", "v", "v", "a", "r", "]">>,
      <<"[", "v", "v", "a", "r", "_", "v", "c", "l", "o", "c", "k", "]">>,
      <<"[", "V", "V", "A", "R", "]">>,
      <<"[", "v", "v", "a">> }

InputPerms == [read : BOOLEAN, write : BOOLEAN, execute : {FALSE}, shared : {FALSE}]

\* The region of the spec's end-to-end example: the needle, followed by NUL,
\* at region offset 100, and nowhere else.
ExampleHaystack(n) == [i \in 1..100 |-> 0] \o n \o <<0, 169>>

RegionLens(n) == (0..MaxHayLen) \cup {Len(ExampleHaystack(n))}

\* The contents a region of the given length can have.
Haystacks(n, len) ==
    IF len <= MaxHayLen THEN [1..len -> Bytes] ELSE {ExampleHaystack(n)}

\* The operating system lists regions in ascending address order: the
\* region on line i starts at 256 * i.
RegionStart(i) == 256 * i

InputMaps(n, i) ==
    { [address |-> [start |-> RegionStart(i), end |-> RegionStart(i) + len],
       perms |-> p, pathname |-> path] :
        len \in RegionLens(n), p \in InputPerms, path \in Pathnames }

NoMap == [address |-> [start |-> 0, end |-> 0],
          perms |-> [read |-> FALSE, write |-> FALSE, execute |-> FALSE, shared |-> FALSE],
          pathname |-> <<>>]

\* ----------------------------------------------------------------- state
VARIABLES
    needle,       \* Finder.finder: the compiled needle
    nlines,       \* number of lines of the target's region list
    srcBroken,    \* reads of the region list now fail (the target is gone)
    openFailed,   \* the files whose open failed in FindIter::new
    res,          \* what find_iter returned: "uncalled", "Err" or "Ok"
    pc,           \* the coroutine's position
    running,      \* control is inside coroutine.resume
    called,       \* next() has been called at least once
    cursor,       \* lines consumed from maps.lines()
    map,          \* the Map parsed from the current line
    haystack,     \* the bytes read for the current region
    fpos,         \* position of finder.find_iter(&haystack)
    spos,         \* offset of the current match
    item,         \* what the last call of next() produced
    itemLine,     \* the region-list line item belongs to
    errRun,       \* Err items produced so far for line itemLine (2 = two or more)
    yieldedCur,   \* the match addresses yielded for the current region
    memReads,     \* lines for which read_exact_at was called
    noreadLines,  \* parsed lines whose perms.read is false
    vvarLines,    \* parsed lines whose pathname starts with "[vvar"
    nones,        \* times next() has returned None (2 = two or more)
    pkind,        \* what from_str / fmt are applied to: "none", "perms" or "map"
    pstage,       \* how far the conversions of pin have got
    pin,          \* the text or the value the conversions started from
    ptext,        \* the text last formatted (or given)
    pval          \* the result of the last from_str

vars == <<needle, nlines, srcBroken, openFailed, res, pc, running, called, cursor, map,
          haystack, fpos, spos, item, itemLine, errRun, yieldedCur, memReads,
          noreadLines, vvarLines, nones, pkind, pstage, pin, ptext, pval>>

env == <<needle, nlines>>

hist == <<noreadLines, vvarLines>>

pvars == <<pkind, pstage, pin, ptext, pval>>

\* -------------------------------------------------------- pure functions
Max(a, b) == IF a >= b THEN a ELSE b

\* bytes[from..] of Rust, with from a 0-based offset.
SliceFrom(bytes, from) == SubSeq(bytes, from + 1, Len(bytes))

\* str::starts_with
StartsWith(s, prefix) ==
    /\ Len(s) >= Len(prefix)
    /\ SubSeq(s, 1, Len(prefix)) = prefix

VvarPrefix == <<"[", "v", "v", "a", "r">>

\* Mutant: the read permission is not consulted.
IsReadableAlways(m) == TRUE

\* map.perms.read
IsReadable(m) == m.perms.read

\* Mutant: only the pathname "[vvar]" itself is skipped.
IsVvarExact(m) == m.pathname = VvarPrefix \o <<"]">>

\* map.pathname.starts_with("[vvar")
IsVvar(m) == StartsWith(m.pathname, VvarPrefix)

\* The command-line scan, find of main.rs: a parsed region is read and
\* searched unless perms.read is false or its pathname is "[vvar]".
MainSkips(m) ==
    \/ ~m.perms.read
    \/ m.pathname = <<"[", "v", "v", "a", "r", "]">>

\* memmem: does the needle occur in h at 0-based offset p
OccursAt(n, h, p) ==
    /\ p + Len(n) <= Len(h)
    /\ SubSeq(h, p + 1, p + Len(n)) = n

\* memmem::FindIter::next: the first occurrence at or after pos, or -1
FindFrom(n, h, pos) ==
    LET occ == {p \in pos..(Len(h) - Len(n)) : OccursAt(n, h, p)}
    IN  IF occ = {} THEN -1
        ELSE CHOOSE p \in occ : \A q \in occ : p <= q

\* memmem::FindIter::next: where the search resumes after a match at p
FinderAdvance(n, p) == p + Max(1, Len(n))

\* Mutant: the match offset is not added to the region's start.
MatchAddrNoOffset(m, p) == m.address.start

\* Mutant: the offset is added to the region's end.
MatchAddrFromEnd(m, p) == m.address.end + p

\* let pos = map.address.start + spos;
MatchAddr(m, p) == m.address.start + p

\* Width of the UTF-8 sequence starting at bytes[i], or 0 if none is
\* well-formed there.  Bytes holds no lead byte of a 3- or 4-byte sequence.
Utf8Width(bytes, i) ==
    IF bytes[i] < 128 THEN 1
    ELSE IF /\ bytes[i] >= 194 /\ bytes[i] <= 223
            /\ i + 1 <= Len(bytes)
            /\ bytes[i + 1] >= 128 /\ bytes[i + 1] <= 191 THEN 2
    ELSE 0

CodePoint(bytes, i) ==
    IF bytes[i] < 128 THEN bytes[i]
    ELSE (bytes[i] - 192) * 64 + (bytes[i + 1] - 128)

\* str::from_utf8(bytes).is_ok()
RECURSIVE Utf8ValidFrom(_, _)
Utf8ValidFrom(bytes, i) ==
    IF i > Len(bytes) THEN TRUE
    ELSE IF Utf8Width(bytes, i) = 0 THEN FALSE
    ELSE Utf8ValidFrom(bytes, i + Utf8Width(bytes, i))

FromUtf8Ok(bytes) == Utf8ValidFrom(bytes, 1)

\* String::from_utf8_lossy: each invalid byte becomes U+FFFD
RECURSIVE LossyFrom(_, _)
LossyFrom(bytes, i) ==
    IF i > Len(bytes) THEN <<>>
    ELSE IF Utf8Width(bytes, i) = 0 THEN <<65533>> \o LossyFrom(bytes, i + 1)
    ELSE <<CodePoint(bytes, i)>> \o LossyFrom(bytes, i + Utf8Width(bytes, i))

ToStringLossy(bytes) == LossyFrom(bytes, 1)

\* Index of the first NUL of bytes, or 0 (memchr)
NulIndex(bytes) ==
    LET nul == {i \in 1..Len(bytes) : bytes[i] = 0}
    IN  IF nul = {} THEN 0
        ELSE CHOOSE i \in nul : \A j \in nul : i <= j

\* Mutant: the NUL is kept in the result.
FromBytesUntilNulIncl(bytes) ==
    IF NulIndex(bytes) = 0 THEN [ok |-> FALSE, bytes |-> <<>>]
    ELSE [ok |-> TRUE, bytes |-> SubSeq(bytes, 1, NulIndex(bytes))]

\* CStr::from_bytes_until_nul: the bytes before the first NUL, if there is one
FromBytesUntilNul(bytes) ==
    IF NulIndex(bytes) = 0 THEN [ok |-> FALSE, bytes |-> <<>>]
    ELSE [ok |-> TRUE, bytes |-> SubSeq(bytes, 1, NulIndex(bytes) - 1)]

\* The loop `for len in 1..` : &bytes[..len] panics once len exceeds the
\* slice, before from_utf8 is called.
RECURSIVE PrefixLoop(_, _, _)
PrefixLoop(bytes, len, s) ==
    IF len > Len(bytes) THEN [panic |-> TRUE, text |-> s]
    ELSE IF FromUtf8Ok(SubSeq(bytes, 1, len))
         THEN PrefixLoop(bytes, len + 1, ToStringLossy(SubSeq(bytes, 1, len)))
    ELSE [panic |-> FALSE, text |-> s]

\* ----------------------------------------------------------------- items
Nothing == [k |-> "nothing"]

None == [k |-> "none"]

Panic == [k |-> "panic"]

ErrItem(kind) == [k |-> "err", kind |-> kind]

OkItem(addr, text) == [k |-> "ok", addr |-> addr, text |-> text]

\* yielder.suspend(it): the item comes out of next(), for line ln
Suspend(it, ln) ==
    /\ item' = it
    /\ itemLine' = ln
    /\ running' = FALSE
    /\ errRun' = IF it.k # "err" THEN 0
                 ELSE IF ln = itemLine THEN (IF errRun >= 1 THEN 2 ELSE 1)
                 ELSE 1

\* ------------------------------------------------------------------ Init
Init ==
    /\ needle \in Needles
    /\ nlines \in 0..MaxLines
    /\ srcBroken = FALSE
    /\ openFailed = {}
    /\ res = "uncalled"
    /\ pc = "absent"
    /\ running = FALSE
    /\ called = FALSE
    /\ cursor = 0
    /\ map = NoMap
    /\ haystack = <<>>
    /\ fpos = 0
    /\ spos = 0
    /\ item = Nothing
    /\ itemLine = 0
    /\ errRun = 0
    /\ yieldedCur = <<>>
    /\ memReads = {}
    /\ noreadLines = {}
    /\ vvarLines = {}
    /\ nones = 0
    /\ pkind = "none"
    /\ pstage = "idle"
    /\ pin = <<>>
    /\ ptext = <<>>
    /\ pval = [ok |-> FALSE]


\* ------------------------------------------- Finder::find_iter, FindIter::new
\* Mutant: the coroutine is resumed once while it is constructed.
FindIterNewEager ==
    /\ res = "uncalled"
    /\ \E mapsOk \in BOOLEAN, memOk \in BOOLEAN :
         IF ~mapsOk
         THEN /\ openFailed' = {"maps"}
              /\ res' = "Err"
              /\ UNCHANGED <<pc, running>>
         ELSE IF ~memOk
         THEN /\ openFailed' = {"mem"}
              /\ res' = "Err"
              /\ UNCHANGED <<pc, running>>
         ELSE /\ openFailed' = {}
              /\ res' = "Ok"
              /\ pc' = "lines"
              /\ running' = TRUE
    /\ UNCHANGED <<pvars, nones, env, called, srcBroken, cursor, map, haystack, fpos, spos, item,
                   itemLine, errRun, yieldedCur, memReads, hist>>

\* Mutant: a failed open of /proc/<pid>/mem does not fail the construction.
FindIterNewDeferred ==
    /\ res = "uncalled"
    /\ \E mapsOk \in BOOLEAN, memOk \in BOOLEAN :
         IF ~mapsOk
         THEN /\ openFailed' = {"maps"}
              /\ res' = "Err"
              /\ pc' = pc
         ELSE /\ openFailed' = IF memOk THEN {} ELSE {"mem"}
              /\ res' = "Ok"
              /\ pc' = "start"
    /\ UNCHANGED <<pvars, nones, env, called, srcBroken, running, cursor, map, haystack, fpos, spos,
                   item, itemLine, errRun, yieldedCur, memReads, hist>>

\* File::open of /proc/<pid>/maps, then of /proc/<pid>/mem, each with `?`;
\* the coroutine is created and not resumed.
FindIterNew ==
    /\ res = "uncalled"
    /\ \E mapsOk \in BOOLEAN, memOk \in BOOLEAN :
         IF ~mapsOk
         THEN /\ openFailed' = {"maps"}
              /\ res' = "Err"
              /\ pc' = pc
         ELSE IF ~memOk
         THEN /\ openFailed' = {"mem"}
              /\ res' = "Err"
              /\ pc' = pc
         ELSE /\ openFailed' = {}
              /\ res' = "Ok"
              /\ pc' = "start"
    /\ UNCHANGED <<pvars, nones, env, called, srcBroken, running, cursor, map, haystack, fpos, spos, item,
                   itemLine, errRun, yieldedCur, memReads, hist>>

\* ------------------------------------------------------------ FindIter::next
\* Mutant: the finished coroutine is resumed, which panics.
IterNextDoneResumes ==
    /\ res = "Ok"
    /\ ~running
    /\ called' = TRUE
    /\ pc = "done"
    /\ pc' = "panicked"
    /\ item' = Panic
    /\ errRun' = 0
    /\ UNCHANGED <<pvars, nones, env, srcBroken, openFailed, res, running, cursor, map,
                   haystack, fpos, spos, itemLine, yieldedCur, memReads, hist>>

\* if self.coroutine.done() { return None; }
IterNextDone ==
    /\ res = "Ok"
    /\ ~running
    /\ called' = TRUE
    /\ pc = "done"
    /\ item' = None
    /\ nones' = IF nones >= 1 THEN 2 ELSE 1
    /\ errRun' = 0
    /\ UNCHANGED <<pvars, env, srcBroken, openFailed, res, pc, running, cursor, map, haystack,
                   fpos, spos, itemLine, yieldedCur, memReads, hist>>

\* self.coroutine.resume(())
IterNextResume ==
    /\ res = "Ok"
    /\ ~running
    /\ called' = TRUE
    /\ pc \in {"start", "lines", "matches"}
    /\ running' = TRUE
    /\ pc' = IF pc = "start" THEN "lines" ELSE pc
    /\ UNCHANGED <<pvars, nones, env, srcBroken, openFailed, res, cursor, map, haystack, fpos, spos,
                   item, itemLine, errRun, yieldedCur, memReads, hist>>

\* ------------------------------------------------- the coroutine: outer loop
\* maps.lines() is exhausted: the closure returns, resume gives Return(()).
LinesEnd ==
    /\ running
    /\ pc = "lines"
    /\ ~srcBroken
    /\ cursor = nlines
    /\ pc' = "done"
    /\ running' = FALSE
    /\ item' = None
    /\ nones' = IF nones >= 1 THEN 2 ELSE 1
    /\ errRun' = 0
    /\ UNCHANGED <<pvars, env, called, srcBroken, openFailed, res, cursor, map, haystack, fpos, spos,
                   itemLine, yieldedCur, memReads, hist>>

\* The read under Lines::next fails with an I/O error: nothing is consumed,
\* the error is yielded and `continue` calls Lines::next again.
LineReadIoErr ==
    /\ running
    /\ pc = "lines"
    /\ srcBroken
    /\ Suspend(ErrItem("ReadIo"), cursor + 1)
    /\ UNCHANGED <<pvars, nones, env, called, srcBroken, openFailed, res, pc, cursor, map, haystack, fpos,
                   spos, yieldedCur, memReads, hist>>

\* The line is not valid UTF-8: Lines::next consumes it and gives Err.
LineInvalidUtf8 ==
    /\ running
    /\ pc = "lines"
    /\ ~srcBroken
    /\ cursor < nlines
    /\ cursor' = cursor + 1
    /\ Suspend(ErrItem("ReadInvalidData"), cursor + 1)
    /\ UNCHANGED <<pvars, nones, env, called, srcBroken, openFailed, res, pc, map, haystack, fpos, spos,
                   yieldedCur, memReads, hist>>

\* map.parse::<Map>() fails.
LineParseErr ==
    /\ running
    /\ pc = "lines"
    /\ ~srcBroken
    /\ cursor < nlines
    /\ cursor' = cursor + 1
    /\ Suspend(ErrItem("ParseInvalidData"), cursor + 1)
    /\ UNCHANGED <<pvars, nones, env, called, srcBroken, openFailed, res, pc, map, haystack, fpos, spos,
                   yieldedCur, memReads, hist>>

\* map.parse::<Map>() succeeds.
LineParsed ==
    /\ running
    /\ pc = "lines"
    /\ ~srcBroken
    /\ cursor < nlines
    /\ \E m \in InputMaps(needle, cursor + 1) :
         /\ map' = m
         /\ noreadLines' = IF m.perms.read THEN noreadLines
                           ELSE noreadLines \cup {cursor + 1}
         /\ vvarLines' = IF /\ Len(m.pathname) >= 5
                            /\ SubSeq(m.pathname, 1, 5) = <<"[", "v", "v", "a", "r">>
                         THEN vvarLines \cup {cursor + 1}
                         ELSE vvarLines
    /\ cursor' = cursor + 1
    /\ pc' = "parsed"
    /\ haystack' = <<>>
    /\ fpos' = 0
    /\ spos' = 0
    /\ yieldedCur' = <<>>
    /\ UNCHANGED <<pvars, nones, env, called, srcBroken, openFailed, res, running, item, itemLine, errRun,
                   memReads>>

\* if !map.perms.read { continue; }
SkipUnreadable ==
    /\ running
    /\ pc = "parsed"
    /\ ~IsReadable(map)
    /\ pc' = "lines"
    /\ UNCHANGED <<pvars, nones, env, called, srcBroken, openFailed, res, running, cursor, map, haystack, fpos,
                   spos, item, itemLine, errRun, yieldedCur, memReads, hist>>

\* if map.pathname.starts_with("[vvar") { continue; }
SkipVvar ==
    /\ running
    /\ pc = "parsed"
    /\ IsReadable(map)
    /\ IsVvar(map)
    /\ pc' = "lines"
    /\ UNCHANGED <<pvars, nones, env, called, srcBroken, openFailed, res, running, cursor, map, haystack, fpos,
                   spos, item, itemLine, errRun, yieldedCur, memReads, hist>>

\* mem.read_exact_at fails: the error is yielded, then `continue`.
MemReadErr ==
    /\ running
    /\ pc = "parsed"
    /\ IsReadable(map)
    /\ ~IsVvar(map)
    /\ memReads' = memReads \cup {cursor}
    /\ pc' = "lines"
    /\ Suspend(ErrItem("MemRead"), cursor)
    /\ UNCHANGED <<pvars, nones, env, called, srcBroken, openFailed, res, cursor, map, haystack, fpos, spos,
                   yieldedCur, hist>>

\* mem.read_exact_at fills the haystack of end - start bytes.
MemReadOk ==
    /\ running
    /\ pc = "parsed"
    /\ IsReadable(map)
    /\ ~IsVvar(map)
    /\ memReads' = memReads \cup {cursor}
    /\ \E h \in Haystacks(needle, map.address.end - map.address.start) :
         haystack' = h
    /\ fpos' = 0
    /\ pc' = "matches"
    /\ UNCHANGED <<pvars, nones, env, called, srcBroken, openFailed, res, running, cursor, map, spos, item,
                   itemLine, errRun, yieldedCur, hist>>

\* ------------------------------------------------- the coroutine: inner loop
\* finder.find_iter(&haystack) has no further occurrence.
MatchesExhausted ==
    /\ running
    /\ pc = "matches"
    /\ FindFrom(needle, haystack, fpos) = -1
    /\ pc' = "lines"
    /\ UNCHANGED <<pvars, nones, env, called, srcBroken, openFailed, res, running, cursor, map, haystack, fpos,
                   spos, item, itemLine, errRun, yieldedCur, memReads, hist>>

\* CStr::from_bytes_until_nul(bytes) is Ok: yield its lossy decoding.
YieldCStr ==
    /\ running
    /\ pc = "matches"
    /\ FindFrom(needle, haystack, fpos) >= 0
    /\ LET p == FindFrom(needle, haystack, fpos)
           c == FromBytesUntilNul(SliceFrom(haystack, p))
       IN  /\ c.ok
           /\ spos' = p
           /\ fpos' = FinderAdvance(needle, p)
           /\ yieldedCur' = Append(yieldedCur, MatchAddr(map, p))
           /\ Suspend(OkItem(MatchAddr(map, p), ToStringLossy(c.bytes)), cursor)
    /\ UNCHANGED <<pvars, nones, env, called, srcBroken, openFailed, res, pc, cursor, map, haystack, memReads,
                   hist>>

\* No NUL: the prefix loop ends at an invalid prefix; yield the last valid one.
YieldPrefix ==
    /\ running
    /\ pc = "matches"
    /\ FindFrom(needle, haystack, fpos) >= 0
    /\ LET p == FindFrom(needle, haystack, fpos)
           c == FromBytesUntilNul(SliceFrom(haystack, p))
           r == PrefixLoop(SliceFrom(haystack, p), 1, <<>>)
       IN  /\ ~c.ok
           /\ ~r.panic
           /\ spos' = p
           /\ fpos' = FinderAdvance(needle, p)
           /\ yieldedCur' = Append(yieldedCur, MatchAddr(map, p))
           /\ Suspend(OkItem(MatchAddr(map, p), r.text), cursor)
    /\ UNCHANGED <<pvars, nones, env, called, srcBroken, openFailed, res, pc, cursor, map, haystack, memReads,
                   hist>>

\* No NUL and every prefix is valid: &bytes[..len] is indexed past the end
\* of the slice and panics; the panic unwinds out of next().
PanicSliceIndex ==
    /\ running
    /\ pc = "matches"
    /\ FindFrom(needle, haystack, fpos) >= 0
    /\ LET p == FindFrom(needle, haystack, fpos)
           c == FromBytesUntilNul(SliceFrom(haystack, p))
           r == PrefixLoop(SliceFrom(haystack, p), 1, <<>>)
       IN  /\ ~c.ok
           /\ r.panic
           /\ spos' = p
    /\ pc' = "panicked"
    /\ running' = FALSE
    /\ item' = Panic
    /\ itemLine' = cursor
    /\ errRun' = 0
    /\ UNCHANGED <<pvars, nones, env, called, srcBroken, openFailed, res, cursor, map, haystack, fpos,
                   yieldedCur, memReads, hist>>

\* ------------------------------------------------------------ the environment
\* The target goes away during the scan: from now on every read of its
\* region list fails.
SourceBreaks ==
    /\ res = "Ok"
    /\ ~srcBroken
    /\ pc \notin {"done", "panicked"}
    /\ srcBroken' = TRUE
    /\ UNCHANGED <<pvars, nones, env, called, openFailed, res, pc, running, cursor, map, haystack, fpos, spos,
                   item, itemLine, errRun, yieldedCur, memReads, hist>>

Coroutine ==
    \/ LinesEnd
    \/ LineReadIoErr
    \/ LineInvalidUtf8
    \/ LineParseErr
    \/ LineParsed
    \/ SkipUnreadable
    \/ SkipVvar
    \/ MemReadErr
    \/ MemReadOk
    \/ MatchesExhausted
    \/ YieldCStr
    \/ YieldPrefix
    \/ PanicSliceIndex

Next ==
    \/ FindIterNew
    \/ IterNextDone
    \/ IterNextResume
    \/ Coroutine
    \/ SourceBreaks

Spec == Init /\ [][Next]_vars

\* The consumer keeps calling next(), and a resumed coroutine runs.
FairSpec == Spec /\ WF_vars(IterNextDone \/ IterNextResume) /\ WF_vars(Coroutine)


\* ============================================== Perms and Map: from_str, fmt
\* Text is a sequence of one-character strings, one per byte.  The
\* conversions are applied to an input drawn in ConvInit: a text is parsed and
\* the value formatted back (text0, value1, text2), or a value is formatted
\* and the text parsed back (value0, text1, value2).
MaxPermLen == 5

PermChars == {"r", "w", "x", "s", "p", "-", "R"}

PermTexts == UNION {[1..n -> PermChars] : n \in 0..MaxPermLen}

AllPerms == [read : BOOLEAN, write : BOOLEAN, execute : BOOLEAN, shared : BOOLEAN]

ParseErr == [ok |-> FALSE]

ParseOk(v) == [ok |-> TRUE, v |-> v]

\* Mutant: '-' is taken for "private" at the fourth position.
PermsFromStrDash(t) ==
    IF Len(t) # 4 THEN ParseErr
    ELSE IF t[1] \notin {"r", "-"} THEN ParseErr
    ELSE IF t[2] \notin {"w", "-"} THEN ParseErr
    ELSE IF t[3] \notin {"x", "-"} THEN ParseErr
    ELSE IF t[4] \notin {"s", "p", "-"} THEN ParseErr
    ELSE ParseOk([read |-> t[1] = "r", write |-> t[2] = "w",
                  execute |-> t[3] = "x", shared |-> t[4] = "s"])

\* Perms::from_str
PermsFromStr(t) ==
    IF Len(t) # 4 THEN ParseErr
    ELSE IF t[1] \notin {"r", "-"} THEN ParseErr
    ELSE IF t[2] \notin {"w", "-"} THEN ParseErr
    ELSE IF t[3] \notin {"x", "-"} THEN ParseErr
    ELSE IF t[4] \notin {"s", "p"} THEN ParseErr
    ELSE ParseOk([read |-> t[1] = "r", write |-> t[2] = "w",
                  execute |-> t[3] = "x", shared |-> t[4] = "s"])

\* Mutant: the shared flag is written as 's' / '-'.
PermsFmtDash(p) ==
    << IF p.read THEN "r" ELSE "-",
       IF p.write THEN "w" ELSE "-",
       IF p.execute THEN "x" ELSE "-",
       IF p.shared THEN "s" ELSE "-" >>

\* <Perms as Display>::fmt
PermsFmt(p) ==
    << IF p.read THEN "r" ELSE "-",
       IF p.write THEN "w" ELSE "-",
       IF p.execute THEN "x" ELSE "-",
       IF p.shared THEN "s" ELSE "p" >>

\* ------------------------------------------------------------ Map::from_str
\* u8::is_ascii_whitespace, for the bytes a line can hold
IsWs(c) == c \in {" ", "\t", "\f", "\r"}

\* str::split_ascii_whitespace: the maximal runs of non-whitespace
TokStarts(t) == {i \in 1..Len(t) : ~IsWs(t[i]) /\ (i = 1 \/ IsWs(t[i - 1]))}

TokEnd(t, i) ==
    CHOOSE j \in i..Len(t) :
        /\ \A k \in i..j : ~IsWs(t[k])
        /\ (j = Len(t) \/ IsWs(t[j + 1]))

NthTokStart(t, n) ==
    CHOOSE i \in TokStarts(t) : Cardinality({j \in TokStarts(t) : j < i}) = n - 1

SplitAsciiWhitespace(t) ==
    [n \in 1..Cardinality(TokStarts(t)) |->
        SubSeq(t, NthTokStart(t, n), TokEnd(t, NthTokStart(t, n)))]

\* str::split_once('-'): the text before and after the first '-'
SplitOnceDash(t) ==
    LET at == {i \in 1..Len(t) : t[i] = "-"}
        k == CHOOSE i \in at : \A j \in at : i <= j
    IN  IF at = {} THEN [ok |-> FALSE]
        ELSE [ok |-> TRUE, left |-> SubSeq(t, 1, k - 1), right |-> SubSeq(t, k + 1, Len(t))]

LowerDigits == <<"0", "1", "2", "3", "4", "5", "6", "7", "8", "9", "a", "b", "c", "d", "e", "f">>

UpperDigits == <<"0", "1", "2", "3", "4", "5", "6", "7", "8", "9", "A", "B", "C", "D", "E", "F">>

\* char::to_digit(16): the digit's value, or -1
ToDigit(c) ==
    IF \E i \in 1..16 : LowerDigits[i] = c
    THEN (CHOOSE i \in 1..16 : LowerDigits[i] = c) - 1
    ELSE IF \E i \in 1..16 : UpperDigits[i] = c
    THEN (CHOOSE i \in 1..16 : UpperDigits[i] = c) - 1
    ELSE -1

\* A number is the sequence of its digits, most significant first, without
\* leading zeros (zero is the empty sequence): usize and ino_t are 64 bits
\* wide, which TLC's integers are not.
StripZeros(d) ==
    LET nz == {i \in 1..Len(d) : d[i] # 0}
    IN  IF nz = {} THEN <<>>
        ELSE SubSeq(d, CHOOSE i \in nz : \A j \in nz : i <= j, Len(d))

\* a <= b, for two numbers in the same radix
NumLeq(a, b) ==
    \/ Len(a) < Len(b)
    \/ /\ Len(a) = Len(b)
       /\ \/ a = b
          \/ LET df == {i \in 1..Len(a) : a[i] # b[i]}
                 k == CHOOSE i \in df : \A j \in df : i <= j
             IN  a[k] < b[k]

\* usize::MAX in radix 16 and u64::MAX (ino_t) in radix 10
UsizeMax == [i \in 1..16 |-> 15]

InoMax == <<1, 8, 4, 4, 6, 7, 4, 4, 0, 7, 3, 7, 0, 9, 5, 5, 1, 6, 1, 5>>

\* usize::from_str_radix, ino_t::from_str_radix: an optional '+', then one or
\* more digits of the radix; Err on any other byte and on overflow.
FromStrRadix(t, radix, max) ==
    IF t = <<>> \/ t = <<"+">> \/ t = <<"-">> THEN ParseErr
    ELSE LET ds == IF t[1] = "+" THEN Tail(t) ELSE t
         IN  IF \E i \in 1..Len(ds) : ToDigit(ds[i]) \notin 0..(radix - 1) THEN ParseErr
             ELSE LET v == StripZeros([i \in 1..Len(ds) |-> ToDigit(ds[i])])
                  IN  IF NumLeq(v, max) THEN ParseOk(v) ELSE ParseErr

\* Mutant: the tokens are joined without the space.
RECURSIVE FoldPathnameNoSpace(_, _, _)
FoldPathnameNoSpace(toks, n, acc) ==
    IF n > Len(toks) THEN acc
    ELSE FoldPathnameNoSpace(toks, n + 1, acc \o toks[n])

\* iter.fold(String::new(), ..): the tokens from the n-th on, a space pushed
\* before each one but the first
RECURSIVE FoldPathname(_, _, _)
FoldPathname(toks, n, acc) ==
    IF n > Len(toks) THEN acc
    ELSE FoldPathname(toks, n + 1,
                      (IF acc # <<>> THEN acc \o <<" ">> ELSE acc) \o toks[n])

\* Map::from_str: every failure is the same ParseMapError
MapFromStr(t) ==
    LET toks == SplitAsciiWhitespace(t)
    IN  IF Len(toks) < 5 THEN ParseErr
        ELSE LET sp == SplitOnceDash(toks[1])
                 perms == PermsFromStr(toks[2])
                 offset == FromStrRadix(toks[3], 16, UsizeMax)
                 inode == FromStrRadix(toks[5], 10, InoMax)
             IN  IF ~sp.ok THEN ParseErr
                 ELSE LET start == FromStrRadix(sp.left, 16, UsizeMax)
                          end == FromStrRadix(sp.right, 16, UsizeMax)
                      IN  IF ~start.ok \/ ~end.ok \/ ~perms.ok \/ ~offset.ok \/ ~inode.ok
                          THEN ParseErr
                          ELSE ParseOk([address |-> [start |-> start.v, end |-> end.v],
                                        perms |-> perms.v,
                                        offset |-> offset.v,
                                        dev |-> toks[4],
                                        inode |-> inode.v,
                                        pathname |-> FoldPathname(toks, 6, <<>>)])

\* ------------------------------------------------------------------ Map::fmt
HexWidth == 8

InodeWidth == 10

Repeat(c, n) == [i \in 1..n |-> c]

\* The digits of a number as text; zero is "0".
DigitText(v) == IF v = <<>> THEN <<"0">> ELSE [i \in 1..Len(v) |-> LowerDigits[v[i] + 1]]

\* Mutant: {:8x}, padded with spaces.
FmtHexSpacePadded(v) == Repeat(" ", HexWidth - Len(DigitText(v))) \o DigitText(v)

\* {:08x}
FmtHex(v) == Repeat("0", HexWidth - Len(DigitText(v))) \o DigitText(v)

\* Mutant: {}, without the padding.
FmtInodeUnpadded(v) == DigitText(v)

\* {:<10}
FmtInode(v) == DigitText(v) \o Repeat(" ", InodeWidth - Len(DigitText(v)))

\* "{start:08x}-{end:08x} {perms} {offset:08x} {dev} {inode:<10} {pathname}"
MapFmt(m) ==
    FmtHex(m.address.start) \o <<"-">> \o FmtHex(m.address.end) \o <<" ">>
    \o PermsFmt(m.perms) \o <<" ">> \o FmtHex(m.offset) \o <<" ">>
    \o m.dev \o <<" ">> \o FmtInode(m.inode) \o <<" ">> \o m.pathname

\* ------------------------------------------------- inputs of the conversions
MaxGap == 2

\* The line of the test `map`.
ExampleLine == <<"0", "8", "0", "4", "8", "0", "0", "0", "-", "0", "8", "0", "4", "9", "0", "0", "0", " ", "r", "-", "x", "p", " ", "0", "0", "0", "0", "0", "0", "0", "0", " ", "0", "3", ":", "0", "0", " ", "8", "3", "1", "2", " ", " ", " ", " ", " ", " ", " ", "/", "o", "p", "t", "/", "t", "e", "s", "t", " ", "(", "d", "e", "l", "e", "t", "e", "d", ")">>

\* address fields: well-formed ones, start above end, signs, a missing '-',
\* empty halves, non-hex digits, a second '-', upper case, 17 digits
AddrToks ==
    { <<"0", "8", "0", "4", "8", "0", "0", "0", "-", "0", "8", "0", "4", "9", "0", "0", "0">>,
      <<"7", "f", "1", "2", "3", "4", "5", "6", "7", "0", "0", "0", "-", "7", "f", "1", "2", "3", "4", "5", "6", "8", "0", "0", "0">>,
      <<"2", "-", "1">>,
      <<"+", "1", "-", "2">>,
      <<"1", "2">>,
      <<"-", "1">>,
      <<"1", "-">>,
      <<"g", "-", "1">>,
      <<"1", "-", "2", "-", "3">>,
      <<"A", "-", "f">>,
      <<"0", "-", "1", "0", "0", "0", "0", "0", "0", "0", "0", "0", "0", "0", "0", "0", "0", "0", "0">> }

PermToks ==
    { <<"r", "-", "x", "p">>,
      <<"r", "w", "-", "s">>,
      <<"r", "-", "x">>,
      <<"r", "-", "x", "P">> }

OffsetToks ==
    { <<"0", "0", "0", "0", "0", "0", "0", "0">>,
      <<"1", "F">>,
      <<"+", "1">>,
      <<"0", "x", "1", "f">> }

DevToks ==
    { <<"0", "3", ":", "0", "0">> }

\* inodes: the last two are u64::MAX and u64::MAX + 1
InodeToks ==
    { <<"8", "3", "1", "2">>,
      <<"0">>,
      <<"+", "5">>,
      <<"-", "1">>,
      <<"1", "f">>,
      <<"1", "8", "4", "4", "6", "7", "4", "4", "0", "7", "3", "7", "0", "9", "5", "5", "1", "6", "1", "5">>,
      <<"1", "8", "4", "4", "6", "7", "4", "4", "0", "7", "3", "7", "0", "9", "5", "5", "1", "6", "1", "6">> }

PathToks ==
    { <<>>,
      <<<<"/", "o", "p", "t", "/", "t", "e", "s", "t">>>>,
      <<<<"/", "o", "p", "t", "/", "t", "e", "s", "t">>, <<"(", "d", "e", "l", "e", "t", "e", "d", ")">>>> }

Gaps == {Repeat(" ", n) : n \in 1..MaxGap} \cup {<<"\t">>}

RECURSIVE JoinGap(_, _)
JoinGap(toks, g) ==
    IF toks = <<>> THEN <<>>
    ELSE IF Len(toks) = 1 THEN toks[1]
    ELSE toks[1] \o g \o JoinGap(Tail(toks), g)

FullTokLists ==
    {<<a, p, o, d, i>> \o pt : a \in AddrToks, p \in PermToks, o \in OffsetToks,
                                d \in DevToks, i \in InodeToks, pt \in PathToks}

\* lines that end before the inode
ShortTokLists ==
    {SubSeq(SplitAsciiWhitespace(ExampleLine), 1, n) : n \in 0..4}

FreeTexts ==
    {pad \o JoinGap(toks, g) \o pad :
        toks \in FullTokLists \cup ShortTokLists, g \in Gaps, pad \in {<<>>, <<" ">>}}

\* Lines in the layout Map::fmt writes, with a pathname.
CanonHex ==
    { <<"0", "8", "0", "4", "8", "0", "0", "0">>,
      <<"0", "8", "0", "4", "9", "0", "0", "0">>,
      <<"0", "0", "0", "0", "0", "0", "0", "0">>,
      <<"0", "0", "0", "0", "0", "0", "1", "f">>,
      <<"7", "f", "1", "2", "3", "4", "5", "6", "7", "0", "0", "0">>,
      <<"f", "f", "f", "f", "f", "f", "f", "f", "f", "f", "f", "f", "f", "f", "f", "f">> }

CanonInodes ==
    { <<"8", "3", "1", "2", " ", " ", " ", " ", " ", " ">>,
      <<"0", " ", " ", " ", " ", " ", " ", " ", " ", " ">>,
      <<"1", "2", "3", "4", "5", "6", "7", "8", "9", "0", "1">>,
      <<"1", "8", "4", "4", "6", "7", "4", "4", "0", "7", "3", "7", "0", "9", "5", "5", "1", "6", "1", "5">> }

CanonPerms ==
    { <<"r", "-", "x", "p">>,
      <<"r", "w", "-", "s">>,
      <<"-", "-", "-", "p">>,
      <<"r", "w", "x", "s">> }

CanonPaths ==
    { <<"/", "o", "p", "t", "/", "t", "e", "s", "t">>,
      <<"/", "o", "p", "t", "/", "t", "e", "s", "t", " ", "(", "d", "e", "l", "e", "t", "e", "d", ")">>,
      <<"[", "h", "e", "a", "p", "]">> }

CanonTexts ==
    {a \o <<"-">> \o b \o <<" ">> \o p \o <<" ">> \o o \o <<" ">> \o d \o <<" ">>
       \o i \o <<" ">> \o pn :
        a \in CanonHex, b \in CanonHex, p \in CanonPerms,
        o \in {<<"0", "0", "0", "0", "0", "0", "0", "0">>, <<"0", "0", "0", "0", "0", "0", "1", "f">>}, d \in DevToks,
        i \in CanonInodes, pn \in CanonPaths}

MapTexts == FreeTexts \cup CanonTexts

HexVals ==
    { <<>>, <<1>>, <<8, 0, 4, 8, 0, 0, 0>>, <<8, 0, 4, 9, 0, 0, 0>>,
      <<7, 15, 1, 2, 3, 4, 5, 6, 7, 0, 0, 0>>, UsizeMax }

InodeVals == { <<>>, <<8, 3, 1, 2>>, <<1, 2, 3, 4, 5, 6, 7, 8, 9, 0, 1>>, InoMax }

MapValues ==
    [address : [start : HexVals, end : HexVals],
     perms : {PermsFromStr(t).v : t \in CanonPerms},
     offset : {<<>>, <<1, 15>>, UsizeMax},
     dev : DevToks,
     inode : InodeVals,
     pathname : {<<>>} \cup CanonPaths]

\* ------------------------------------------- the conversions as state machine
engine == <<needle, nlines, srcBroken, openFailed, res, pc, running, called, cursor,
            map, haystack, fpos, spos, item, itemLine, errRun, yieldedCur, memReads,
            noreadLines, vvarLines, nones>>

\* No Finder is built: only a conversion is exercised.
ConvInit ==
    /\ needle = <<97>>
    /\ nlines = 0
    /\ srcBroken = FALSE
    /\ openFailed = {}
    /\ res = "uncalled"
    /\ pc = "absent"
    /\ running = FALSE
    /\ called = FALSE
    /\ cursor = 0
    /\ map = NoMap
    /\ haystack = <<>>
    /\ fpos = 0
    /\ spos = 0
    /\ item = Nothing
    /\ itemLine = 0
    /\ errRun = 0
    /\ yieldedCur = <<>>
    /\ memReads = {}
    /\ noreadLines = {}
    /\ vvarLines = {}
    /\ nones = 0
    /\ pkind \in {"perms", "map"}
    /\ \/ /\ pstage = "text0"
          /\ pin \in IF pkind = "perms" THEN PermTexts ELSE MapTexts
          /\ ptext = pin
          /\ pval = ParseErr
       \/ /\ pstage = "value0"
          /\ pin \in IF pkind = "perms" THEN AllPerms ELSE MapValues
          /\ ptext = <<>>
          /\ pval = ParseOk(pin)

\* s.parse::<Perms>()
ParsePerms ==
    /\ pkind = "perms"
    /\ pstage \in {"text0", "text1"}
    /\ pval' = PermsFromStr(ptext)
    /\ pstage' = IF pstage = "text0" THEN "value1" ELSE "value2"
    /\ UNCHANGED <<engine, pkind, pin, ptext>>

\* perms.to_string()
DisplayPerms ==
    /\ pkind = "perms"
    /\ pstage \in {"value0", "value1"}
    /\ pval.ok
    /\ ptext' = PermsFmt(pval.v)
    /\ pstage' = IF pstage = "value0" THEN "text1" ELSE "text2"
    /\ UNCHANGED <<engine, pkind, pin, pval>>

\* s.parse::<Map>()
ParseMap ==
    /\ pkind = "map"
    /\ pstage \in {"text0", "text1"}
    /\ pval' = MapFromStr(ptext)
    /\ pstage' = IF pstage = "text0" THEN "value1" ELSE "value2"
    /\ UNCHANGED <<engine, pkind, pin, ptext>>

\* map.to_string()
DisplayMap ==
    /\ pkind = "map"
    /\ pstage \in {"value0", "value1"}
    /\ pval.ok
    /\ ptext' = MapFmt(pval.v)
    /\ pstage' = IF pstage = "value0" THEN "text1" ELSE "text2"
    /\ UNCHANGED <<engine, pkind, pin, pval>>

ConvNext ==
    \/ ParsePerms
    \/ DisplayPerms
    \/ ParseMap
    \/ DisplayMap

ConvSpec == ConvInit /\ [][ConvNext]_vars

\* ==================================================================== claims
\* The item of the last next() is a match of the region now being scanned.
ItemIsCurrentMatch == item.k = "ok" /\ itemLine = cursor

\* The bytes from the yielded match to the region's end.
ItemTail == SliceFrom(haystack, item.addr - map.address.start)

HasNul(bytes) == \E i \in 1..Len(bytes) : bytes[i] = 0

\* The bytes before the first NUL of bytes.
BeforeFirstNul(bytes) ==
    LET k == CHOOSE i \in 1..Len(bytes) :
                 bytes[i] = 0 /\ \A j \in 1..(i - 1) : bytes[j] # 0
    IN  SubSeq(bytes, 1, k - 1)

\* The longest prefix of bytes that is valid UTF-8.
LongestValidPrefix(bytes) ==
    LET lens == {l \in 0..Len(bytes) : FromUtf8Ok(SubSeq(bytes, 1, l))}
        best == CHOOSE l \in lens : \A l2 \in lens : l2 <= l
    IN  SubSeq(bytes, 1, best)

\* The addresses of the needle's occurrences in the region, as the pattern
\* finder reports them: ascending, each search resuming after the last match.
RECURSIVE OccurrenceAddrs(_)
OccurrenceAddrs(from) ==
    IF FindFrom(needle, haystack, from) = -1 THEN <<>>
    ELSE <<map.address.start + FindFrom(needle, haystack, from)>>
         \o OccurrenceAddrs(FindFrom(needle, haystack, from) + Len(needle))

\* The scan of the current region is over (or none has begun).
RegionFinished == pc \in {"lines", "done"}

\* C1: per-line error isolation: a line that cannot be read or parsed, or an
\* eligible region that cannot be read, gives exactly one Err item for that
\* line and the scan goes on: no line gets a second Err item, the scan is
\* never aborted, and every region that was read yields all of its matches.
C1_ErrorIsolation ==
    /\ errRun <= 1
    /\ pc # "panicked"
    /\ RegionFinished => yieldedCur = OccurrenceAddrs(0)

\* C2: ordering: the match addresses yielded within one region are strictly
\* ascending, and an item never belongs to an earlier line than the item
\* yielded before it.
C2_Ordering ==
    /\ [](\A i \in 1..Len(yieldedCur), j \in 1..Len(yieldedCur) :
            i < j => yieldedCur[i] < yieldedCur[j])
    /\ [][ (running /\ ~running' /\ item'.k \in {"ok", "err"})
             => /\ itemLine' >= itemLine
                /\ (item.k = "ok" /\ item'.k = "ok" /\ itemLine' = itemLine)
                     => item'.addr > item.addr ]_vars

\* A second line produced items after an error on the first, two of them
\* matches of one region.
C2_Witness ==
    /\ cursor = 2
    /\ itemLine = 2
    /\ Len(yieldedCur) >= 2
    /\ item.k = "ok"
    /\ 1 \notin memReads

\* C3: laziness: before the first call of next() no line and no memory has
\* been read; when next() has returned an item, no line past that item's line
\* has been read and no region past it has been read from memory; and the
\* scan's state changes only inside a call of next().
C3_Laziness ==
    /\ [](~called => cursor = 0 /\ memReads = {} /\ item = Nothing /\ ~running)
    /\ []((~running /\ item.k \in {"ok", "err"})
            => cursor <= itemLine /\ \A l \in memReads : l <= itemLine)
    /\ [][ (cursor' # cursor \/ memReads' # memReads \/ haystack' # haystack
              \/ fpos' # fpos \/ item' # item)
             => (called' /\ (running \/ running' \/ pc = "done")) ]_vars

\* The first item has come out of a list of two lines, and line 2 is unread.
C3_Witness ==
    /\ nlines = 2
    /\ ~running
    /\ item.k = "ok"
    /\ itemLine = 1
    /\ cursor = 1
    /\ memReads = {1}

\* C4: a parsed region without read permission is never read from the
\* target's memory and no item (match or error) belongs to its line.
C4_UnreadableSkipped ==
    /\ noreadLines \cap memReads = {}
    /\ item.k \in {"ok", "err", "panic"} => itemLine \notin noreadLines

\* A region without read permission was skipped and a later line gave a match.
C4_Witness ==
    /\ 1 \in noreadLines
    /\ cursor = 2
    /\ item.k = "ok"
    /\ itemLine = 2

\* C5: a parsed region whose pathname starts with "[vvar" is never read from
\* the target's memory and no item belongs to its line, whatever its
\* permissions.
C5_VvarSkipped ==
    /\ vvarLines \cap memReads = {}
    /\ item.k \in {"ok", "err", "panic"} => itemLine \notin vvarLines

\* A readable "[vvar_vclock]" region was skipped (the scan went on to read
\* line 2 from memory).
C5_Witness ==
    /\ 1 \in vvarLines
    /\ 1 \notin noreadLines
    /\ 2 \in memReads
    /\ item.k = "ok"

\* C6: no match is rejected: a region that was read yields one Ok item per
\* occurrence the finder reports, at address start + offset, and the
\* extraction of the text never aborts the scan.
C6_NoMatchRejected ==
    /\ pc # "panicked"
    /\ RegionFinished => yieldedCur = OccurrenceAddrs(0)
    /\ ItemIsCurrentMatch => item.addr = map.address.start + spos

\* C7: when a NUL follows the match within the region, the text is the
\* decoding of exactly the bytes from the match up to the first NUL; the
\* region of the spec's example gives one match, at start + 100, whose text is
\* the needle's text.
C7_NulTerminated ==
    /\ (ItemIsCurrentMatch /\ HasNul(ItemTail))
         => item.text = ToStringLossy(BeforeFirstNul(ItemTail))
    /\ (ItemIsCurrentMatch /\ haystack = ExampleHaystack(needle))
         => /\ item.addr = map.address.start + 100
            /\ item.text = ToStringLossy(needle)
    /\ (RegionFinished /\ haystack = ExampleHaystack(needle))
         => yieldedCur = <<map.address.start + 100>>

\* The example's region has been scanned to its end.
C7_Witness ==
    /\ haystack = ExampleHaystack(needle)
    /\ RegionFinished
    /\ ItemIsCurrentMatch
    /\ item.addr = map.address.start + 100

\* C8: when no NUL follows the match within the region, a match is yielded
\* and its text is the longest valid UTF-8 prefix of the bytes from the match
\* to the region's end.
C8_LongestValidPrefix ==
    (/\ item.k \in {"ok", "panic"}
     /\ itemLine = cursor
     /\ ~HasNul(SliceFrom(haystack, spos)))
        => /\ item.k = "ok"
           /\ item.text = ToStringLossy(LongestValidPrefix(SliceFrom(haystack, spos)))

\* C9: a failed open makes find_iter return Err: no FindIter exists and no
\* item is ever produced; whatever comes out of a stream, None included,
\* comes from a find_iter that returned Ok.
C9_FatalOpen ==
    /\ openFailed # {} => (res = "Err" /\ pc = "absent" /\ item = Nothing /\ ~called)
    /\ res = "Err" => (openFailed # {} /\ pc = "absent" /\ item = Nothing /\ ~called)
    /\ item # Nothing => res = "Ok"

\* /proc/<pid>/maps was opened and /proc/<pid>/mem was not.
C9_Witness == res = "Err" /\ openFailed = {"mem"}

\* C10: termination: a consumer that keeps calling next() eventually gets
\* None.  (The panic of C6 ends the stream without None; that case is set
\* aside here, so that what is refuted is termination itself.)
C10_Terminates == (res = "Ok") ~> (item.k \in {"none", "panic"})


\* C18: exhaustion is sticky: once next() has returned None, every later
\* call returns None, the coroutine is not resumed and nothing is read.
C18_StickyNone ==
    /\ [](nones >= 1 => (item.k = "none" /\ pc = "done" /\ ~running))
    /\ [][ nones >= 1
             => /\ item'.k = "none"
                /\ nones' >= nones
                /\ pc' = "done"
                /\ ~running'
                /\ cursor' = cursor
                /\ memReads' = memReads
                /\ haystack' = haystack ]_vars

\* next() was called again after a scan of at least one line had ended.
C18_Witness == nones = 2 /\ cursor >= 1 /\ memReads # {}

\* C19: a yielded match lies inside its region: start <= address and
\* address + n <= end for a needle of n bytes, and the slice taken at the
\* match offset is within the haystack of end - start bytes.
C19_MatchInsideRegion ==
    ItemIsCurrentMatch
        => /\ map.address.start <= item.addr
           /\ item.addr + Len(needle) <= map.address.end
           /\ Len(haystack) = map.address.end - map.address.start
           /\ spos + Len(needle) <= Len(haystack)

\* A match that ends at the region's last byte.
C19_Witness ==
    /\ ItemIsCurrentMatch
    /\ item.addr + Len(needle) = map.address.end
    /\ item.addr > map.address.start

\* C20: the command-line scan and the library scan decide alike, for every
\* parsed line, whether the region is skipped or read: when the library's
\* decision on a line is taken, the region is read exactly if find of
\* main.rs does not skip it.
C20_SameEligibility ==
    [][ (pc = "parsed" /\ pc' # "parsed")
          => ((cursor \in memReads') <=> ~MainSkips(map)) ]_vars


\* ------------------------------------------------ claims on the conversions
PermsParsed == pkind = "perms" /\ pstage = "value1"

MapParsed == pkind = "map" /\ pstage = "value1"

\* C11: every Map that Map::from_str returns has address.start <= address.end,
\* so that the haystack length end - start of the scan does not underflow.
C11_StartLeqEnd ==
    (MapParsed /\ pval.ok) => NumLeq(pval.v.address.start, pval.v.address.end)

\* C12: each of the 16 Perms values formats to a text of 4 characters that no
\* other Perms value formats to, and parsing that text gives the value back.
C12_PermsRoundTrip ==
    /\ Cardinality(AllPerms) = 16
    /\ (pkind = "perms" /\ pstage = "text1") =>
          /\ Len(ptext) = 4
          /\ \A q \in AllPerms : q # pin => PermsFmt(q) # ptext
    /\ (pkind = "perms" /\ pstage = "value2") => pval = ParseOk(pin)

C12_Witness ==
    /\ pkind = "perms" /\ pstage = "value2"
    /\ pin = [read |-> FALSE, write |-> TRUE, execute |-> FALSE, shared |-> TRUE]
    /\ ptext = <<"-", "w", "-", "s">>

\* C13: a Map built from the fields of the line grammar, formatted and parsed
\* again, is the same Map; also with bounds wider than 8 hex digits, inodes
\* longer than 10 digits and an empty pathname.
C13_MapRoundTrip ==
    (pkind = "map" /\ pstage = "value2") => pval = ParseOk(pin)

C13_Witness ==
    /\ pkind = "map" /\ pstage = "value2"
    /\ Len(pin.address.start) > HexWidth
    /\ Len(pin.inode) > InodeWidth
    /\ pin.pathname = <<>>
    /\ pin.perms.shared

\* The permission texts of the grammar: r or -, w or -, x or -, s or p.
ValidPermText(t) ==
    /\ Len(t) = 4
    /\ t[1] \in {"r", "-"}
    /\ t[2] \in {"w", "-"}
    /\ t[3] \in {"x", "-"}
    /\ t[4] \in {"s", "p"}

\* C14: Perms::from_str succeeds on exactly the 16 texts of 4 characters that
\* have r/-, w/-, x/-, s/p at their positions, and fails on every other text,
\* whatever its length.
C14_PermsRejection ==
    PermsParsed =>
        /\ pval.ok <=> ValidPermText(pin)
        /\ pin = <<>> => Cardinality({t \in PermTexts : PermsFromStr(t).ok}) = 16

C14_Witness ==
    PermsParsed /\ pin = <<"r", "w", "x", "-">> /\ pval = ParseErr

IsHexText(t) == t # <<>> /\ \A i \in 1..Len(t) : ToDigit(t[i]) \in 0..15

IsDecText(t) == t # <<>> /\ \A i \in 1..Len(t) : ToDigit(t[i]) \in 0..9

\* Five tokens, each in its own format.
WellFormedLine(t) ==
    LET toks == SplitAsciiWhitespace(t)
    IN  /\ Len(toks) >= 5
        /\ \E k \in 1..Len(toks[1]) :
              /\ toks[1][k] = "-"
              /\ \A j \in 1..(k - 1) : toks[1][j] # "-"
              /\ IsHexText(SubSeq(toks[1], 1, k - 1))
              /\ IsHexText(SubSeq(toks[1], k + 1, Len(toks[1])))
        /\ ValidPermText(toks[2])
        /\ IsHexText(toks[3])
        /\ IsDecText(toks[5])

\* C15: Map::from_str returns the error, with no Map in it, for every line
\* that has fewer than five tokens or a token not in its format: a bound or
\* an offset that is not hex digits, an inode that is not decimal digits.
C15_RejectsMalformed ==
    (MapParsed /\ ~WellFormedLine(pin)) => pval = ParseErr

\* C16: the pathname of an accepted line is its tokens after the fifth, in
\* order, joined by one space each, whatever whitespace separated them.
C16_PathnameJoined ==
    (MapParsed /\ pval.ok) =>
        LET toks == SplitAsciiWhitespace(pin)
        IN  pval.v.pathname = JoinGap(SubSeq(toks, 6, Len(toks)), <<" ">>)

C16_Witness ==
    /\ MapParsed /\ pval.ok
    /\ pval.v.pathname = <<"/", "o", "p", "t", "/", "t", "e", "s", "t", " ", "(", "d", "e", "l", "e", "t", "e", "d", ")">>
    /\ \E i \in 1..Len(pin) : pin[i] = "\t"

\* C17: a line in the layout of Map::fmt (hex fields zero-padded to 8 digits,
\* the inode padded with spaces to 10, single spaces elsewhere, a pathname)
\* parses, and formatting the parsed Map gives the line back.
C17_CanonicalReproduced ==
    /\ (MapParsed /\ pin \in CanonTexts) => pval.ok
    /\ (pkind = "map" /\ pstage = "text2" /\ pin \in CanonTexts) => ptext = pin

C17_Witness ==
    pkind = "map" /\ pstage = "text2" /\ pin = ExampleLine /\ ptext = ExampleLine

====
